---- MODULE Spec2Model ----
(***************************************************************************)
(* A model of nbaMovements.py: the reshaping of one play's player-tracking *)
(* JSON into a flat table (get_movements_df), the two distance helpers     *)
(* (travel_dist, player_dist) and the court diagram (draw_court).          *)
(*                                                                         *)
(* Python lists are sequences; Python's 0-based positions are kept in the  *)
(* values the program computes (the "moment" column), while the sequences  *)
(* of the model are indexed from 1: moment[2], moment[3] and moment[5] of  *)
(* the source are m[3], m[4] and m[6] here.                                *)
(***************************************************************************)
EXTENDS Integers, Sequences, FiniteSets, TLC

VARIABLES
    response,        \* the body the endpoint delivered for the last request
    json,            \* the object parsed from it, as get_movements_df leaves it
    player_moments,  \* the list get_movements_df builds (line 60..69)
    id_dict,         \* the roster lookup (line 77..85)
    df,              \* the table get_movements_df returns
    status,          \* "idle", "returned", or the error raised to the caller
    locs_a,          \* player_locations of travel_dist, player_a of player_dist
    locs_b,          \* player_b of player_dist
    travelled,       \* the number travel_dist returned
    dists,           \* the list player_dist returned
    geo_status,      \* "idle", "travel_dist", "player_dist" or "IndexError"
    patches,         \* per Axes: the patches it holds, in add_patch order
    current,         \* the Axes plt.gca() gives
    ret,             \* the Axes the last draw_court call returned (0: none yet)
    style,           \* the color, lw and zorder of the last draw_court call
    ncalls           \* number of draw_court calls so far

reshape_vars == <<response, json, player_moments, id_dict, df, status>>
geo_vars == <<locs_a, locs_b, travelled, dists, geo_status>>
court_vars == <<patches, current, ret, style, ncalls>>
vars == <<reshape_vars, geo_vars, court_vars>>

(***************************************************************************)
(* Bounds of the model.                                                    *)
(***************************************************************************)
MaxMoments == 2
MaxEntities == 2
MaxRoster == 2
MaxLen == 3
MaxCalls == 3

\* All sequences over S of length at most n.
SeqUpTo(S, n) == UNION {[1..k -> S] : k \in 0..n}

(***************************************************************************)
(* The response of the endpoint (lines 22..29, 49..53, 64, 68, 81..82).    *)
(***************************************************************************)
Keys == {"home", "visitor", "moments"}

\* Identifiers of tracked entities: the ball (-1) and a player.
BallId == 0 - 1
RecordIds == {BallId, 1}

\* [team_id, player_id, x_loc, y_loc, radius] as the API sends it.
Records == {<<IF p = BallId THEN BallId ELSE 7, p, 40 + p, 25, 0>> : p \in RecordIds}

\* [quarter, timestamp, game_clock, shot_clock, None, [records]]
MomentsOf(n) ==
    {<<1, 1000, c[1], c[2], "None", recs>> :
        c \in {<<700, 24>>, <<699, 23>>}, recs \in SeqUpTo(Records, n)}

RosterEntries ==
    {[playerid |-> p[1], firstname |-> p[2], lastname |-> p[3], jersey |-> p[4]] :
        p \in {<<1, "A", "B", "10">>, <<1, "C", "D", "23">>,
               <<BallId, "G", "H", "0">>}}

Team(n) == {[players |-> ps] : ps \in SeqUpTo(RosterEntries, n)}

\* Bodies of at most nm moments of at most ne records each, with at most nh
\* home players and nv visiting players.
Bodies(nm, ne, nh, nv) ==
    {[home |-> h, visitor |-> v, moments |-> ms] :
        h \in Team(nh), v \in Team(nv), ms \in SeqUpTo(MomentsOf(ne), nm)}

\* A body without the top-level fields in gone.
Without(body, gone) == [k \in (DOMAIN body) \ gone |-> body[k]]

\* The responses drawn: many moments with small rosters, large rosters with
\* one moment, and small bodies that lack top-level fields.
IsResponse(r) ==
    \/ r \in Bodies(MaxMoments, MaxEntities, 1, 0)
    \/ r \in Bodies(1, MaxEntities, MaxRoster, MaxRoster)
    \/ r \in {Without(b, gone) :
                b \in Bodies(1, 1, 1, 1), gone \in (SUBSET Keys) \ {{}}}

(***************************************************************************)
(* get_movements_df (lines 32..92).                                        *)
(***************************************************************************)
headers == <<"team_id", "player_id", "x_loc", "y_loc", "radius", "moment",
             "game_clock", "shot_clock">>

\* Mutant: the position of the last element equal to value.
IndexLast(list, value) ==
    (CHOOSE i \in 1..Len(list) :
        /\ list[i] = value
        /\ \A j \in (i + 1)..Len(list) : list[j] # value) - 1

\* list.index(value): the 0-based position of the first element equal to value.
Index(list, value) ==
    (CHOOSE i \in 1..Len(list) :
        /\ list[i] = value
        /\ \A j \in 1..(i - 1) : list[j] # value) - 1

\* Line 68: player.extend((moments.index(moment), moment[2], moment[3])).
\* player is the e-th record of the k-th moment and is extended in place, so
\* the moments list itself changes.
ExtendPlayer(moments, k, e) ==
    [moments EXCEPT ![k][6][e] =
        @ \o <<Index(moments, moments[k]), moments[k][3], moments[k][4]>>]

\* Mutant: each record is put in front of the list instead of at its end.
RECURSIVE MomentLoopPrepend(_, _, _, _)
MomentLoopPrepend(moments, k, e, pm) ==
    IF k > Len(moments) THEN [moments |-> moments, player_moments |-> pm]
    ELSE IF e > Len(moments[k][6]) THEN MomentLoopPrepend(moments, k + 1, 1, pm)
    ELSE LET extended == ExtendPlayer(moments, k, e)
         IN  MomentLoopPrepend(extended, k, e + 1, <<extended[k][6][e]>> \o pm)

\* Lines 62..69: the two nested loops, from record e of moment k on.
RECURSIVE MomentLoop(_, _, _, _)
MomentLoop(moments, k, e, pm) ==
    IF k > Len(moments) THEN [moments |-> moments, player_moments |-> pm]
    ELSE IF e > Len(moments[k][6]) THEN MomentLoop(moments, k + 1, 1, pm)
    ELSE LET extended == ExtendPlayer(moments, k, e)
         IN  MomentLoop(extended, k, e + 1, Append(pm, extended[k][6][e]))

\* Mutant: the visitors are added to a copy, the home list is left alone.
ExtendPlayersCopy(home, visitor) == home

\* Lines 72..74: players is the home list itself, extended in place.
ExtendPlayers(home, visitor) ==
    [home EXCEPT !.players = @ \o visitor.players]

\* Mutant: the name without the space between its parts.
IdEntryNoSpace(player) ==
    <<player.firstname \o player.lastname, player.jersey>>

\* Lines 81..82: the value stored for one player.
IdEntry(player) ==
    <<player.firstname \o " " \o player.lastname, player.jersey>>

\* Mutant: the first player with an id is kept, later ones are ignored.
RECURSIVE FillIdDictFirst(_, _)
FillIdDictFirst(players, d) ==
    IF players = <<>> THEN d
    ELSE FillIdDictFirst(Tail(players),
                         d @@ (Head(players).playerid :> IdEntry(Head(players))))

\* Lines 77..82: later players overwrite earlier ones with the same id.
RECURSIVE FillIdDict(_, _)
FillIdDict(players, d) ==
    IF players = <<>> THEN d
    ELSE FillIdDict(Tail(players),
                    (Head(players).playerid :> IdEntry(Head(players))) @@ d)

\* Line 85: the ball, np.nan written "NaN".
BallEntry == <<"ball", "NaN">>

\* Mutant: a lookup that answers every identifier, unknown ones as the ball.
BuildIdDictTotal(players) ==
    (BallId :> BallEntry) @@ FillIdDict(players, <<>>)
        @@ [p \in RecordIds |-> BallEntry]

\* Lines 77..85.
BuildIdDict(players) ==
    (BallId :> BallEntry) @@ FillIdDict(players, <<>>)

\* Lines 88..90: one row of the table.
Row(pm, d) ==
    [team_id |-> pm[1], player_id |-> pm[2], x_loc |-> pm[3], y_loc |-> pm[4],
     radius |-> pm[5], moment |-> pm[6], game_clock |-> pm[7],
     shot_clock |-> pm[8], player_name |-> d[pm[2]][1],
     player_jersey |-> d[pm[2]][2]]

\* Lines 54..92 on an object j that has the three top-level fields: the
\* object as the call leaves it, the locals at the return or the raise, the
\* table and the outcome.
ReshapeBody(j) ==
    LET loop == MomentLoop(j.moments, 1, 1, <<>>)
        pms == loop.player_moments
        home == ExtendPlayers(j.home, j.visitor)
        d == BuildIdDict(home.players)
        after == [j EXCEPT !.moments = loop.moments, !.home = home]
        fail(err) == [json |-> after, player_moments |-> pms, id_dict |-> d,
                      df |-> <<>>, status |-> err]
    IN  IF \E i \in 1..Len(pms) : Len(pms[i]) # Len(headers)
        THEN fail("ValueError")
        ELSE IF \E i \in 1..Len(pms) : pms[i][2] \notin DOMAIN d
        THEN fail("KeyError")
        ELSE [json |-> after, player_moments |-> pms, id_dict |-> d,
              df |-> [i \in 1..Len(pms) |-> Row(pms[i], d)],
              status |-> "returned"]

\* Mutant: absent top-level fields read as empty, as json.get(key, default).
ReshapeLenient(j) ==
    ReshapeBody([k \in Keys |->
        IF k \in DOMAIN j THEN j[k]
        ELSE IF k = "moments" THEN <<>> ELSE [players |-> <<>>]])

\* Lines 49..92 on the parsed object j. Lines 49..53 raise KeyError on an
\* absent field, before player_moments exists.
Reshape(j) ==
    IF ~(Keys \subseteq DOMAIN j)
    THEN [json |-> j, player_moments |-> <<>>, id_dict |-> <<>>, df |-> <<>>,
          status |-> "KeyError"]
    ELSE ReshapeBody(j)

\* get_movements_df(event_id, game_id): the request is answered by the body
\* response, which is parsed (lines 27..28) into a fresh object and reshaped.
GetMovementsDf ==
    /\ status = "idle"
    /\ LET out == Reshape(response)
       IN  /\ json' = out.json
           /\ player_moments' = out.player_moments
           /\ id_dict' = out.id_dict
           /\ df' = out.df
           /\ status' = out.status
    /\ UNCHANGED <<response, geo_vars, court_vars>>

GeoIdle ==
    /\ locs_a = <<>>
    /\ locs_b = <<>>
    /\ travelled = 0
    /\ dists = <<>>
    /\ geo_status = "idle"

CourtIdle ==
    /\ patches = <<>>
    /\ current = 0
    /\ ret = 0
    /\ style = <<>>
    /\ ncalls = 0

\* The endpoint's answer to the request is any of Responses; nothing is
\* parsed or built yet.
InitReshape ==
    /\ IsResponse(response)
    /\ json = <<>>
    /\ player_moments = <<>>
    /\ id_dict = <<>>
    /\ df = <<>>
    /\ status = "idle"
    /\ GeoIdle
    /\ CourtIdle

SpecReshape == InitReshape /\ [][GetMovementsDf]_vars

(***************************************************************************)
(* travel_dist (lines 95..114) and player_dist (lines 119..138).           *)
(* A two-column DataFrame is a sequence of points <<x, y>>. The points are  *)
(* drawn from a 3-4-5 grid, on which every distance is a whole number and   *)
(* the floating-point square root is exact.                                 *)
(***************************************************************************)
Points == {<<x, y>> : x \in {0, 3}, y \in {0, 4}}
Locations == SeqUpTo(Points, MaxLen)

\* np.sqrt, on the squares the grid produces.
Sqrt(n) == CHOOSE r \in 0..n : r * r = n

RECURSIVE Sum(_)
Sum(xs) == IF xs = <<>> THEN 0 ELSE Head(xs) + Sum(Tail(xs))

\* Mutant: the locations themselves instead of their differences.
NoDiff(locs) == locs

\* Line 109: np.diff(player_locations, axis=0), one row fewer than the input
\* and none for an input of no row or one row.
Diff(locs) ==
    [i \in 1..(Len(locs) - 1) |->
        <<locs[i + 1][1] - locs[i][1], locs[i + 1][2] - locs[i][2]>>]

\* Lines 109..114.
travel_dist(player_locations) ==
    LET diff == Diff(player_locations)
        dist == [i \in 1..Len(diff) |->
                    Sqrt(diff[i][1] * diff[i][1] + diff[i][2] * diff[i][2])]
    IN  Sum(dist)

\* scipy's euclidean(u, v) (line 137).
euclidean(u, v) ==
    Sqrt((u[1] - v[1]) * (u[1] - v[1]) + (u[2] - v[2]) * (u[2] - v[2]))

\* Lines 137..138: i runs over range(len(player_a)); player_b.iloc[i] raises
\* IndexError once i reaches len(player_b).
player_dist(player_a, player_b) ==
    IF Len(player_a) > Len(player_b)
    THEN [raised |-> "IndexError", value |-> <<>>]
    ELSE [raised |-> "",
          value |-> [i \in 1..Len(player_a) |->
                        euclidean(player_a[i], player_b[i])]]

TravelDist ==
    /\ geo_status = "idle"
    /\ travelled' = travel_dist(locs_a)
    /\ geo_status' = "travel_dist"
    /\ UNCHANGED <<locs_a, locs_b, dists, reshape_vars, court_vars>>

PlayerDist ==
    /\ geo_status = "idle"
    /\ LET out == player_dist(locs_a, locs_b)
       IN  /\ dists' = out.value
           /\ geo_status' = IF out.raised = "" THEN "player_dist" ELSE out.raised
    /\ UNCHANGED <<locs_a, locs_b, travelled, reshape_vars, court_vars>>

ReshapeIdle ==
    /\ response = <<>>
    /\ json = <<>>
    /\ player_moments = <<>>
    /\ id_dict = <<>>
    /\ df = <<>>
    /\ status = "idle"

\* The arguments of the call are any two location sequences.
InitGeo ==
    /\ locs_a \in Locations
    /\ locs_b \in Locations
    /\ travelled = 0
    /\ dists = <<>>
    /\ geo_status = "idle"
    /\ ReshapeIdle
    /\ CourtIdle

SpecGeo == InitGeo /\ [][TravelDist \/ PlayerDist]_vars

(***************************************************************************)
(* draw_court (lines 141..231). Lengths are in hundredths of a foot, so    *)
(* that 5.35, .75 and 47.5 are the whole numbers 535, 75 and 4750. A patch  *)
(* is its kind, its numbers (geom) and the style it was made with.          *)
(***************************************************************************)
AxesIds == {1, 2}
Colors == {"gray", "black"}
LineWeights == {1, 2}
ZOrders == {0, 1}

\* Rectangle((x, y), width, height, ...): geom is <<x, y, width, height>>.
Rectangle(x, y, width, height, fill, color, lw, zorder) ==
    [kind |-> "Rectangle", geom |-> <<x, y, width, height>>, fill |-> fill,
     color |-> color, lw |-> lw, zorder |-> zorder]

\* Circle((x, y), radius=r, ...): geom is <<x, y, r>>.
Circle(x, y, radius, color, lw, zorder) ==
    [kind |-> "Circle", geom |-> <<x, y, radius>>, fill |-> FALSE,
     color |-> color, lw |-> lw, zorder |-> zorder]

\* Arc((x, y), width, height, theta1=, theta2=, ...), never filled.
Arc(x, y, width, height, theta1, theta2, color, lw, zorder) ==
    [kind |-> "Arc", geom |-> <<x, y, width, height, theta1, theta2>>,
     fill |-> FALSE, color |-> color, lw |-> lw, zorder |-> zorder]

\* Mutant: the list without its last element, the small centre circle.
court_elements_short(color, lw, zorder) ==
    <<Circle(535, -2500, 75, color, lw, zorder),
      Rectangle(400, -2800, 0, 600, TRUE, color, lw, zorder),
      Rectangle(0, -3300, 1900, 1600, FALSE, color, lw, zorder),
      Rectangle(0, -5000, 9400, 5000, FALSE, color, lw, zorder),
      Rectangle(0, -3100, 1900, 1200, FALSE, color, lw, zorder),
      Circle(1900, -2500, 600, color, lw, zorder),
      Rectangle(0, -300, 1400, 0, TRUE, color, lw, zorder),
      Rectangle(0, -4700, 1400, 0, TRUE, color, lw, zorder),
      Arc(500, -2500, 4750, 4750, 292, 68, color, lw, zorder),
      Circle(8865, -2500, 75, color, lw, zorder),
      Rectangle(9000, -2800, 0, 600, TRUE, color, lw, zorder),
      Rectangle(7500, -3300, 1900, 1600, FALSE, color, lw, zorder),
      Rectangle(7500, -3100, 1900, 1200, FALSE, color, lw, zorder),
      Circle(7500, -2500, 600, color, lw, zorder),
      Rectangle(8000, -300, 1400, 0, TRUE, color, lw, zorder),
      Rectangle(8000, -4700, 1400, 0, TRUE, color, lw, zorder),
      Arc(8900, -2500, 4750, 4750, 112, 248, color, lw, zorder),
      Rectangle(4700, -5000, 0, 5000, TRUE, color, lw, zorder),
      Circle(4700, -2500, 600, color, lw, zorder)>>

\* Lines 165..225: the patches, in the order of the court_elements list:
\* l_hoop, l_backboard, l_outer_box, outer, l_inner_box, l_free_throw,
\* l_corner_a, l_corner_b, l_arc, r_hoop, r_backboard, r_outer_box,
\* r_inner_box, r_free_throw, r_corner_a, r_corner_b, r_arc, half_court,
\* hc_big_circle, hc_sm_circle. A Rectangle made without fill=False is filled.
court_elements(color, lw, zorder) ==
    <<Circle(535, -2500, 75, color, lw, zorder),
      Rectangle(400, -2800, 0, 600, TRUE, color, lw, zorder),
      Rectangle(0, -3300, 1900, 1600, FALSE, color, lw, zorder),
      Rectangle(0, -5000, 9400, 5000, FALSE, color, lw, zorder),
      Rectangle(0, -3100, 1900, 1200, FALSE, color, lw, zorder),
      Circle(1900, -2500, 600, color, lw, zorder),
      Rectangle(0, -300, 1400, 0, TRUE, color, lw, zorder),
      Rectangle(0, -4700, 1400, 0, TRUE, color, lw, zorder),
      Arc(500, -2500, 4750, 4750, 292, 68, color, lw, zorder),
      Circle(8865, -2500, 75, color, lw, zorder),
      Rectangle(9000, -2800, 0, 600, TRUE, color, lw, zorder),
      Rectangle(7500, -3300, 1900, 1600, FALSE, color, lw, zorder),
      Rectangle(7500, -3100, 1900, 1200, FALSE, color, lw, zorder),
      Circle(7500, -2500, 600, color, lw, zorder),
      Rectangle(8000, -300, 1400, 0, TRUE, color, lw, zorder),
      Rectangle(8000, -4700, 1400, 0, TRUE, color, lw, zorder),
      Arc(8900, -2500, 4750, 4750, 112, 248, color, lw, zorder),
      Rectangle(4700, -5000, 0, 5000, TRUE, color, lw, zorder),
      Circle(4700, -2500, 600, color, lw, zorder),
      Circle(4700, -2500, 200, color, lw, zorder)>>

\* draw_court(ax, color, lw, zorder); ax = 0 stands for ax=None. Lines
\* 161..162 take the current Axes then; lines 228..229 add every element to
\* the Axes, which keeps the patches it holds; line 231 returns the Axes.
DrawCourt(ax, color, lw, zorder) ==
    /\ ncalls < MaxCalls
    /\ LET target == IF ax = 0 THEN current ELSE ax
       IN  /\ patches' = [patches EXCEPT
                             ![target] = @ \o court_elements(color, lw, zorder)]
           /\ ret' = target
    /\ style' = <<color, lw, zorder>>
    /\ ncalls' = ncalls + 1
    /\ UNCHANGED <<current, reshape_vars, geo_vars>>

\* A pyplot session with empty Axes, one of them the current one.
InitCourt ==
    /\ patches = [a \in AxesIds |-> <<>>]
    /\ current \in AxesIds
    /\ ret = 0
    /\ style = <<>>
    /\ ncalls = 0
    /\ ReshapeIdle
    /\ GeoIdle

NextCourt ==
    \E ax \in {0} \cup AxesIds, color \in Colors, lw \in LineWeights,
       zorder \in ZOrders : DrawCourt(ax, color, lw, zorder)

SpecCourt == InitCourt /\ [][NextCourt]_vars

(***************************************************************************)
(* Properties of get_movements_df.                                         *)
(***************************************************************************)
HasFields == Keys \subseteq DOMAIN response

\* The players of both rosters as delivered, home first.
Roster == response.home.players \o response.visitor.players

\* Number of rows that come before those of moment k.
RECURSIVE Offset(_, _)
Offset(ms, k) == IF k = 1 THEN 0 ELSE Offset(ms, k - 1) + Len(ms[k - 1][6])

\* Row r carries the five fields of the delivered record rec and the clocks
\* of the delivered moment m.
BuiltFrom(r, rec, m) ==
    /\ <<r.team_id, r.player_id, r.x_loc, r.y_loc, r.radius>> = rec
    /\ r.game_clock = m[3]
    /\ r.shot_clock = m[4]

\* C1: when a table is returned for a response of K moments with E records
\* each, it has exactly K*E rows and its row k*E + e (counted from 0) is built
\* from record e of moment k.
C1_RowsInMomentThenEntityOrder ==
    status = "returned" =>
        LET ms == response.moments
            K == Len(ms)
        IN  \A E \in 0..(MaxEntities + 1) :
                (\A k \in 1..K : Len(ms[k][6]) = E) =>
                    /\ Len(df) = K * E
                    /\ \A k \in 0..(K - 1), e \in 0..(E - 1) :
                          BuiltFrom(df[k * E + e + 1], ms[k + 1][6][e + 1],
                                    ms[k + 1])

C1_Witness ==
    /\ status = "returned"
    /\ Len(response.moments) = 2
    /\ \A k \in 1..2 : Len(response.moments[k][6]) = 2
    /\ response.moments[1][3] # response.moments[2][3]
    /\ response.moments[1][6][1] # response.moments[1][6][2]
    /\ Len(df) = 4

\* C2: in a returned table the moment column of every row is the 0-based
\* position of the row's moment in the moments sequence, also when several
\* moments of the response are equal.
C2_MomentIsPosition ==
    status = "returned" =>
        LET ms == response.moments
        IN  \A k \in 1..Len(ms) : \A e \in 1..Len(ms[k][6]) :
                df[Offset(ms, k) + e].moment = k - 1

C2_Witness ==
    /\ status = "returned"
    /\ Len(response.moments) = 2
    /\ response.moments[1] = response.moments[2]
    /\ Len(response.moments[1][6]) = 2
    /\ df[3].moment = 1

\* C3: in a returned table a row of the ball (-1) is named "ball" with a NaN
\* jersey, and a row of any other identifier carries the first name, a
\* space and the last name, and the jersey, of a roster entry with that
\* identifier.
C3_NamesAndJerseys ==
    status = "returned" =>
        \A i \in 1..Len(df) :
            IF df[i].player_id = BallId
            THEN df[i].player_name = "ball" /\ df[i].player_jersey = "NaN"
            ELSE \E n \in 1..Len(Roster) :
                    /\ Roster[n].playerid = df[i].player_id
                    /\ df[i].player_name =
                          Roster[n].firstname \o " " \o Roster[n].lastname
                    /\ df[i].player_jersey = Roster[n].jersey

C3_Witness ==
    /\ status = "returned"
    /\ \E i \in 1..Len(df) :
          /\ df[i].player_id = 1
          /\ df[i].player_name = "A B"
          /\ df[i].player_jersey = "10"
    /\ \E i \in 1..Len(df) :
          /\ df[i].player_id = BallId
          /\ df[i].player_name = "ball"

\* Some delivered record names an identifier other than -1 that neither
\* roster holds.
UnknownId ==
    \E k \in 1..Len(response.moments) :
        \E e \in 1..Len(response.moments[k][6]) :
            LET id == response.moments[k][6][e][2]
            IN  /\ id # BallId
                /\ \A n \in 1..Len(Roster) : Roster[n].playerid # id

\* C4: when a record names an identifier other than -1 that is in neither
\* roster the call raises KeyError and returns no table, and every
\* player_id of a returned table resolves in the roster lookup.
C4_UnknownIdFails ==
    /\ (status # "idle" /\ HasFields /\ UnknownId) =>
            (status = "KeyError" /\ df = <<>>)
    /\ status = "returned" =>
            \A i \in 1..Len(df) : df[i].player_id \in DOMAIN id_dict

C4_Witness ==
    /\ status = "KeyError"
    /\ HasFields
    /\ UnknownId
    /\ Len(player_moments) = 2

\* C5: when the response lacks home, visitor or moments the call raises an
\* error before any row is built and returns no table.
C5_MissingFieldFails ==
    (status # "idle" /\ ~HasFields) =>
        /\ status = "KeyError"
        /\ player_moments = <<>>
        /\ df = <<>>

C5_Witness ==
    /\ status = "KeyError"
    /\ DOMAIN response = {"home", "visitor"}
    /\ response.home.players # <<>>

\* C7 as claimed: the call leaves the parsed object as it was delivered, and
\* reshaping that object once more gives the same table.
C7_JsonUntouched ==
    status = "returned" =>
        /\ json = response
        /\ Reshape(json).status = "returned"
        /\ Reshape(json).df = df

\* C7 as amended: the call changes the parsed object in place. Each record
\* of each moment ends with three more fields (the moment's position and its
\* two clocks), the home players list ends with the visiting players, and
\* nothing else changes; the object is local to the call, which parses a
\* fresh one each time.
C7_JsonExtendedInPlace ==
    status = "returned" =>
        /\ DOMAIN json = DOMAIN response
        /\ json.visitor = response.visitor
        /\ json.home.players = response.home.players \o response.visitor.players
        /\ Len(json.moments) = Len(response.moments)
        /\ \A k \in 1..Len(json.moments) :
              LET m == response.moments[k]
                  n == json.moments[k]
              IN  /\ \A f \in 1..5 : n[f] = m[f]
                  /\ Len(n[6]) = Len(m[6])
                  /\ \A e \in 1..Len(m[6]) :
                        n[6][e] = m[6][e] \o <<k - 1, m[3], m[4]>>

C7_Witness ==
    /\ status = "returned"
    /\ Len(response.moments) = 2
    /\ Len(response.moments[2][6]) = 2
    /\ response.home.players # <<>>
    /\ json # response

\* The last roster entry with identifier id, home players before visitors.
LastEntry(id) ==
    Roster[CHOOSE n \in 1..Len(Roster) :
        /\ Roster[n].playerid = id
        /\ \A q \in (n + 1)..Len(Roster) : Roster[q].playerid # id]

\* C10: the lookup is filled with the home players, then the visitors, then
\* the ball, later insertions overwriting: a row whose identifier is in both
\* rosters gets the visitor's name and jersey (the last entry's), and a row
\* of -1 gets "ball" and NaN even when a roster holds an entry for -1.
C10_LaterEntriesOverwrite ==
    status = "returned" =>
        \A i \in 1..Len(df) :
            IF df[i].player_id = BallId
            THEN <<df[i].player_name, df[i].player_jersey>> = <<"ball", "NaN">>
            ELSE LET p == LastEntry(df[i].player_id)
                 IN  /\ df[i].player_name = p.firstname \o " " \o p.lastname
                     /\ df[i].player_jersey = p.jersey

C10_Witness ==
    /\ status = "returned"
    /\ \E n \in 1..Len(response.home.players) :
          response.home.players[n].playerid = 1
    /\ \E n \in 1..Len(response.visitor.players) :
          /\ response.visitor.players[n].playerid = 1
          /\ response.visitor.players[n].firstname = "C"
    /\ \E n \in 1..Len(Roster) : Roster[n].playerid = BallId
    /\ \E i \in 1..Len(df) : df[i].player_id = 1 /\ df[i].player_name = "C D"
    /\ \E i \in 1..Len(df) : df[i].player_id = BallId
    /\ \E n \in 1..Len(response.home.players) :
          /\ response.home.players[n].playerid = 1
          /\ response.home.players[n].firstname = "A"

(***************************************************************************)
(* Properties of the distance helpers.                                     *)
(***************************************************************************)
\* C6 as claimed: player_dist raises an error whenever its two arguments
\* differ in length, whichever is the longer.
C6_DifferentLengthsFail ==
    (geo_status \in {"player_dist", "IndexError"} /\ Len(locs_a) # Len(locs_b)) =>
        geo_status = "IndexError"

\* C9: travel_dist returns 0 when no two consecutive points differ: for no
\* point, one point, and one point repeated.
C9_NoMovementIsZero ==
    (/\ geo_status = "travel_dist"
     /\ \A i \in 1..(Len(locs_a) - 1) : locs_a[i] = locs_a[i + 1]) =>
        travelled = 0

C9_Witness ==
    /\ geo_status = "travel_dist"
    /\ Len(locs_a) = 3
    /\ \A i \in 1..3 : locs_a[i] = <<3, 4>>
    /\ travelled = 0

(***************************************************************************)
(* Properties of draw_court.                                               *)
(***************************************************************************)
\* The kind and the numbers of the 20 court elements, whatever the style.
CourtGeometry ==
    <<<<"Circle", <<535, -2500, 75>>>>,
      <<"Rectangle", <<400, -2800, 0, 600>>>>,
      <<"Rectangle", <<0, -3300, 1900, 1600>>>>,
      <<"Rectangle", <<0, -5000, 9400, 5000>>>>,
      <<"Rectangle", <<0, -3100, 1900, 1200>>>>,
      <<"Circle", <<1900, -2500, 600>>>>,
      <<"Rectangle", <<0, -300, 1400, 0>>>>,
      <<"Rectangle", <<0, -4700, 1400, 0>>>>,
      <<"Arc", <<500, -2500, 4750, 4750, 292, 68>>>>,
      <<"Circle", <<8865, -2500, 75>>>>,
      <<"Rectangle", <<9000, -2800, 0, 600>>>>,
      <<"Rectangle", <<7500, -3300, 1900, 1600>>>>,
      <<"Rectangle", <<7500, -3100, 1900, 1200>>>>,
      <<"Circle", <<7500, -2500, 600>>>>,
      <<"Rectangle", <<8000, -300, 1400, 0>>>>,
      <<"Rectangle", <<8000, -4700, 1400, 0>>>>,
      <<"Arc", <<8900, -2500, 4750, 4750, 112, 248>>>>,
      <<"Rectangle", <<4700, -5000, 0, 5000>>>>,
      <<"Circle", <<4700, -2500, 600>>>>,
      <<"Circle", <<4700, -2500, 200>>>>>>

NumElements == Len(CourtGeometry)

\* C8 as claimed: the Axes a call returns holds the 20 primitives, whatever
\* calls were made before it.
C8_AlwaysTwentyPrimitives ==
    ret # 0 => Len(patches[ret]) = NumElements

\* C8 as amended: every call adds the same 20 primitives, each at its fixed
\* coordinates and in the style of the call, to the end of the patches of
\* the Axes it is given (the current Axes when it is given none) and returns
\* that Axes; the Axes keeps what it held, so the Axes together hold 20
\* primitives per call made, each Axes the 20 fixed shapes over and over.
C8_EachCallAddsTheTwenty ==
    /\ \A a \in AxesIds :
          /\ Len(patches[a]) % NumElements = 0
          /\ \A i \in 1..Len(patches[a]) :
                <<patches[a][i].kind, patches[a][i].geom>> =
                    CourtGeometry[((i - 1) % NumElements) + 1]
    /\ Sum([a \in 1..Cardinality(AxesIds) |-> Len(patches[a])]) =
          NumElements * ncalls
    /\ ret # 0 =>
          /\ Len(patches[ret]) >= NumElements
          /\ \A i \in (Len(patches[ret]) - NumElements + 1)..Len(patches[ret]) :
                <<patches[ret][i].color, patches[ret][i].lw,
                  patches[ret][i].zorder>> = style

C8_Witness ==
    /\ ncalls = 2
    /\ ret = current
    /\ Len(patches[ret]) = 2 * NumElements
    /\ patches[ret][1].color # patches[ret][NumElements + 1].color
    /\ patches[ret][1].geom = patches[ret][NumElements + 1].geom
====
